---- MODULE Spec2Model ----
(***************************************************************************)
(* Traffic-condition and activity engine of the DRIVE road-traffic         *)
(* emission inventory: emission-factor lookup with the flat-gradient       *)
(* fallback, level-of-service classification from the volume-capacity      *)
(* ratio, the per-record calculator, the per-date task and the             *)
(* multiprocessing dispatch cell with its two queues and the reduction     *)
(* loop.                                                                   *)
(*                                                                         *)
(* Numbers are integers in fixed scaled units:                             *)
(*   temporal fractions      percent of the daily volume (24 sum to 100)   *)
(*   hourly volumes          1/100 vehicle  (daily volume x percent)       *)
(*   VCR thresholds          percent        (0.37 is 37)                   *)
(*   emission factors        1/100 g per vehicle-km (0.12 is 12)           *)
(*   road length             1/10 km        (0.5 km is 5)                  *)
(*   emissions               1/100000 g     (12 g is 1200000)              *)
(***************************************************************************)
EXTENDS Integers, Sequences, FiniteSets, TLC

VARIABLES
    visum,           \* road-link records handed to every task (visum.to_dict('records'))
    cycles,          \* temporal profiles: (scaling_road_type, day_type, vehicle_class) -> 24 percents
    ef_dict,         \* hbefa.ef_dict['EFA_weighted']: key tuple -> emission factor
    vcr_thresholds,  \* hbefa.vcr_thresholds: road_type -> 4 breakpoints
    calendar,        \* day-type of every date (external calendar lookup)
    worker_count,    \* size of the multiprocessing pool
    pc,              \* position of the dispatch cell
    pending,         \* dates whose task has not started yet
    running,         \* dates whose task is running in a worker
    result_queue,    \* manager.Queue() of daily results
    error_queue,     \* manager.Queue() of error records
    result,          \* the aggregate being reduced (the first dequeued result, mutated in place)
    errors,          \* errors retrieved from error_queue
    call,            \* last direct call of a function (name, arguments, configuration in force)
    ret              \* what that call returned or raised

vars == <<visum, cycles, ef_dict, vcr_thresholds, calendar, worker_count, pc,
          pending, running, result_queue, error_queue, result, errors, call, ret>>

config_vars == <<visum, cycles, ef_dict, vcr_thresholds, calendar, worker_count>>
dispatch_vars == <<pc, pending, running, result_queue, error_queue, result, errors>>

-----------------------------------------------------------------------------
(* Bounds of the model *)

NumLinks == 2        \* road links in the network
NumDates == 2        \* dates in the date range
MaxWorkers == 2      \* largest pool size tried
MaxVcrPct == 120     \* largest volume-capacity ratio tried, in percent
MaxRowCount == 5     \* most counting rows of a road link in the timeframe
MaxDailyValue == 40  \* largest daily value of a counting row
MaxGradient == 80    \* steepest slope tried, in 1/10 percent
MaxSpeedStep == 28   \* highest speed tried, in steps of 5 km/h

(* Program constants *)

year == 2019
NumHours == 24

-----------------------------------------------------------------------------
(* Values and exceptions *)

Ok(v) == [value |-> v]
Raise(kind) == [raised |-> kind]
IsRaised(r) == "raised" \in DOMAIN r

\* a table computed once (a Python dict), not re-evaluated at every subscript
Dict(f) == f @@ <<>>

\* the KeyError that leaves calculate_emissions when the '0%' key is absent too
EmissionFactorNotFound == "EmissionFactorNotFound"
UnknownRoadType == "UnknownRoadType"
InvalidCapacity == "InvalidCapacity"
MissingTemporalProfile == "MissingTemporalProfile"
UnknownVehicleClass == "UnknownVehicleClass"

vehicle_classes == <<"PC", "HGV">>
components == <<"CO2(total)", "NOx">>
VehicleClassSet == {vehicle_classes[i] : i \in DOMAIN vehicle_classes}
ComponentSet == {components[i] : i \in DOMAIN components}

\* traffic conditions in ascending order of congestion
LOS == <<"Freeflow", "Heavy", "Satur.", "St+Go", "St+Go2">>
LOSSet == {LOS[i] : i \in DOMAIN LOS}
LOSIndex(c) == CHOOSE i \in DOMAIN LOS : LOS[i] = c

Hours == 0 .. (NumHours - 1)
DayTypes == {"weekday", "weekend"}

-----------------------------------------------------------------------------
(* EmissionFactorTable *)

TableGradients == {"-2%", "0%", "+2%"}
LinkGradients == {"-2%", "0%", "2%"}

EFKeys == {<<year, ts, vc, g, c>> :
              ts \in LOSSet, vc \in VehicleClassSet, g \in TableGradients, c \in ComponentSet}

\* the factor the export holds for a key: 0.12 g/veh-km for (Freeflow, PC, 0%, CO2(total))
EFValue(k) ==
    LET base == IF k[5] = "CO2(total)" THEN 12 ELSE 3
        cond == LOSIndex(k[2]) - 1
        veh  == IF k[3] = "HGV" THEN 4 ELSE 1
        grad == IF k[4] = "+2%" THEN 2 ELSE IF k[4] = "-2%" THEN -1 ELSE 0
    IN  (base + cond + grad) * veh

EFTable(missing) == [k \in EFKeys \ missing |-> EFValue(k)]

\* exports tried: complete; no factor for passenger cars in St+Go2; no flat-gradient
\* factor for heavy goods vehicles
EFComplete == EFTable({})
EFNoStGo2PC == EFTable({k \in EFKeys : k[2] = "St+Go2" /\ k[3] = "PC"})
EFNoFlatHGV == EFTable({k \in EFKeys : k[4] = "0%" /\ k[3] = "HGV"})

EFTables == {EFComplete, EFNoStGo2PC, EFNoFlatHGV}

\* a lookup that takes a missing factor for zero
ef_lookup_default_zero(efd, TraSit, vehicle_class, hbefa_gradient, component) ==
    IF <<year, TraSit, vehicle_class, hbefa_gradient, component>> \in DOMAIN efd
    THEN Ok(efd[<<year, TraSit, vehicle_class, hbefa_gradient, component>>])
    ELSE IF <<year, TraSit, vehicle_class, "0%", component>> \in DOMAIN efd
         THEN Ok(efd[<<year, TraSit, vehicle_class, "0%", component>>])
         ELSE Ok(0)

ef_lookup(efd, TraSit, vehicle_class, hbefa_gradient, component) ==
    IF <<year, TraSit, vehicle_class, hbefa_gradient, component>> \in DOMAIN efd
    THEN Ok(efd[<<year, TraSit, vehicle_class, hbefa_gradient, component>>])
    ELSE IF <<year, TraSit, vehicle_class, "0%", component>> \in DOMAIN efd
         THEN Ok(efd[<<year, TraSit, vehicle_class, "0%", component>>])
         ELSE Raise(EmissionFactorNotFound)

\* the factor returned without the multiplication by the volume
calculate_emissions_factor_only(efd, vehicle_class, vehicle_volume, TraSit, hbefa_gradient, component) ==
    IF <<year, TraSit, vehicle_class, hbefa_gradient, component>> \in DOMAIN efd
    THEN Ok(efd[<<year, TraSit, vehicle_class, hbefa_gradient, component>>])
    ELSE IF <<year, TraSit, vehicle_class, "0%", component>> \in DOMAIN efd
         THEN Ok(efd[<<year, TraSit, vehicle_class, "0%", component>>])
         ELSE Raise(EmissionFactorNotFound)

calculate_emissions(efd, vehicle_class, vehicle_volume, TraSit, hbefa_gradient, component) ==
    LET ef == ef_lookup(efd, TraSit, vehicle_class, hbefa_gradient, component)
    IN  IF IsRaised(ef) THEN ef ELSE Ok(vehicle_volume * ef.value)

-----------------------------------------------------------------------------
(* LevelOfServiceClassifier *)

\* the table with two digits of one breakpoint swapped (0.17 for 0.71)
vcr_thresholds_typo ==
    [rt \in {"Motorway-Nat", "Motorway-City", "TrunkRoad/Primary-National",
             "TrunkRoad/Primary-City", "Distributor/Secondary", "Local/Collector",
             "Access-residential"} |->
        CASE rt = "Motorway-Nat" -> <<50, 17, 98, 110>>
          [] rt = "Motorway-City" -> <<55, 71, 98, 110>>
          [] rt = "TrunkRoad/Primary-National" -> <<33, 50, 70, 80>>
          [] rt = "TrunkRoad/Primary-City" -> <<67, 82, 92, 102>>
          [] rt = "Distributor/Secondary" -> <<37, 50, 63, 80>>
          [] rt = "Local/Collector" -> <<55, 75, 90, 100>>
          [] rt = "Access-residential" -> <<14, 25, 39, 52>>]

vcr_thresholds_notebook ==
    [rt \in {"Motorway-Nat", "Motorway-City", "TrunkRoad/Primary-National",
             "TrunkRoad/Primary-City", "Distributor/Secondary", "Local/Collector",
             "Access-residential"} |->
        CASE rt = "Motorway-Nat" -> <<50, 71, 98, 110>>
          [] rt = "Motorway-City" -> <<55, 71, 98, 110>>
          [] rt = "TrunkRoad/Primary-National" -> <<33, 50, 70, 80>>
          [] rt = "TrunkRoad/Primary-City" -> <<67, 82, 92, 102>>
          [] rt = "Distributor/Secondary" -> <<37, 50, 63, 80>>
          [] rt = "Local/Collector" -> <<55, 75, 90, 100>>
          [] rt = "Access-residential" -> <<14, 25, 39, 52>>]

\* a calibration run that configures one road type only
vcr_thresholds_single == [rt \in {"Distributor/Secondary"} |-> <<30, 50, 70, 90>>]

ThresholdTables == {vcr_thresholds_notebook, vcr_thresholds_single}

\* a classifier that tests the breakpoints from the top with the bands in list order
calc_los_class_reversed(thresholds, hbefa_speed, hour_capacity, htv_car_unit, road_type) ==
    IF road_type \notin DOMAIN thresholds THEN Raise(UnknownRoadType)
    ELSE IF hour_capacity <= 0 THEN Raise(InvalidCapacity)
    ELSE LET t == thresholds[road_type]
         IN  IF htv_car_unit >= t[4] * hour_capacity THEN Ok(LOS[1])
             ELSE IF htv_car_unit >= t[3] * hour_capacity THEN Ok(LOS[2])
             ELSE IF htv_car_unit >= t[2] * hour_capacity THEN Ok(LOS[3])
             ELSE IF htv_car_unit >= t[1] * hour_capacity THEN Ok(LOS[4])
             ELSE Ok(LOS[5])

\* a classifier that takes the thresholds of another road type for an unknown one
calc_los_class_default(thresholds, hbefa_speed, hour_capacity, htv_car_unit, road_type) ==
    IF hour_capacity <= 0 THEN Raise(InvalidCapacity)
    ELSE LET t == IF road_type \in DOMAIN thresholds THEN thresholds[road_type]
                  ELSE thresholds["Distributor/Secondary"]
         IN  IF htv_car_unit < t[1] * hour_capacity THEN Ok(LOS[1])
             ELSE IF htv_car_unit < t[2] * hour_capacity THEN Ok(LOS[2])
             ELSE IF htv_car_unit < t[3] * hour_capacity THEN Ok(LOS[3])
             ELSE IF htv_car_unit < t[4] * hour_capacity THEN Ok(LOS[4])
             ELSE Ok(LOS[5])

\* a classifier that compares the volume with the capacity without looking at
\* the sign of the capacity
calc_los_class_no_capacity_check(thresholds, hbefa_speed, hour_capacity, htv_car_unit, road_type) ==
    IF road_type \notin DOMAIN thresholds THEN Raise(UnknownRoadType)
    ELSE LET t == thresholds[road_type]
         IN  IF htv_car_unit < t[1] * hour_capacity THEN Ok(LOS[1])
             ELSE IF htv_car_unit < t[2] * hour_capacity THEN Ok(LOS[2])
             ELSE IF htv_car_unit < t[3] * hour_capacity THEN Ok(LOS[3])
             ELSE IF htv_car_unit < t[4] * hour_capacity THEN Ok(LOS[4])
             ELSE Ok(LOS[5])

\* htv_car_unit in 1/100 PCU, thresholds in percent:
\* htv_car_unit / 100 / hour_capacity < t / 100  iff  htv_car_unit < t * hour_capacity
calc_los_class(thresholds, hbefa_speed, hour_capacity, htv_car_unit, road_type) ==
    IF road_type \notin DOMAIN thresholds THEN Raise(UnknownRoadType)
    ELSE IF hour_capacity <= 0 THEN Raise(InvalidCapacity)
    ELSE LET t == thresholds[road_type]
         IN  IF htv_car_unit < t[1] * hour_capacity THEN Ok(LOS[1])
             ELSE IF htv_car_unit < t[2] * hour_capacity THEN Ok(LOS[2])
             ELSE IF htv_car_unit < t[3] * hour_capacity THEN Ok(LOS[3])
             ELSE IF htv_car_unit < t[4] * hour_capacity THEN Ok(LOS[4])
             ELSE Ok(LOS[5])

-----------------------------------------------------------------------------
(* TemporalProfileStore *)

scaling_road_types ==
    [rt \in {"Motorway-Nat", "Motorway-City", "TrunkRoad/Primary-National",
             "TrunkRoad/Primary-City", "Distributor/Secondary", "Local/Collector",
             "Access-residential"} |->
        CASE rt \in {"Motorway-Nat", "Motorway-City"} -> "Motorway-Nat"
          [] rt = "TrunkRoad/Primary-City" -> "TrunkRoad/Primary-City"
          [] OTHER -> "Distributor/Secondary"]

ScalingRoadTypeSet == {scaling_road_types[rt] : rt \in DOMAIN scaling_road_types}

\* working day: 10 % of the daily volume in hour 8
ProfileWeekday ==
    [i \in 1 .. NumHours |->
        LET h == i - 1
        IN  IF h = 8 THEN 10
            ELSE IF h >= 6 /\ h <= 19 THEN 6
            ELSE IF h <= 5 THEN 1
            ELSE IF h <= 21 THEN 2 ELSE 1]

\* weekend: no peak hour
ProfileWeekend ==
    [i \in 1 .. NumHours |->
        LET h == i - 1
        IN  IF h >= 8 /\ h <= 19 THEN 6
            ELSE IF h <= 7 THEN 2 ELSE 3]

CyclesStore(missing) ==
    [k \in (ScalingRoadTypeSet \X DayTypes \X VehicleClassSet) \ missing |->
        IF k[2] = "weekday" THEN ProfileWeekday ELSE ProfileWeekend]

CyclesMissingChoices ==
    { {},
      {<<"Distributor/Secondary", "weekend", vc>> : vc \in VehicleClassSet} }

CyclesStores == {CyclesStore(m) : m \in CyclesMissingChoices}

\* strict lookup of one hourly fraction (percent)
fraction(cyc, scaling_road_type, day_type, vehicle_class, hour) ==
    IF <<scaling_road_type, day_type, vehicle_class>> \in DOMAIN cyc
    THEN Ok(cyc[<<scaling_road_type, day_type, vehicle_class>>][hour + 1])
    ELSE Raise(MissingTemporalProfile)

-----------------------------------------------------------------------------
(* CarUnitConverter *)

car_unit_factors == [vc \in VehicleClassSet |-> IF vc = "HGV" THEN 2 ELSE 1]

RECURSIVE SumPcu(_, _)
SumPcu(volume, i) ==
    IF i = 0 THEN 0
    ELSE volume[vehicle_classes[i]] * car_unit_factors[vehicle_classes[i]]
         + SumPcu(volume, i - 1)

car_units(volume) == SumPcu(volume, Len(vehicle_classes))

-----------------------------------------------------------------------------
(* Road links *)

Link(road_type, hbefa_gradient, hbefa_speed, hour_capacity, length, dtv_PC, dtv_HGV) ==
    [road_type |-> road_type,
     scaling_road_type |-> scaling_road_types[road_type],
     hbefa_gradient |-> hbefa_gradient,
     hbefa_speed |-> hbefa_speed,
     hour_capacity |-> hour_capacity,
     length |-> length,
     dtv |-> [vc \in VehicleClassSet |-> IF vc = "PC" THEN dtv_PC ELSE dtv_HGV]]

\* a secondary road that reaches VCR 1.0 in the peak hour, and a motorway on a slope
LinkTemplates ==
    { Link("Distributor/Secondary", "0%", 50, 200, 5, 2000, 0),
      Link("Motorway-Nat", "2%", 100, 2000, 10, 3000, 500) }

LinkIds == 1 .. NumLinks
Dates == 1 .. NumDates

-----------------------------------------------------------------------------
(* ActivityAndEmissionCalculator: one road link, one hour *)

Keys == VehicleClassSet \X ComponentSet

calculate_record(cyc, efd, thresholds, link, day_type, hour) ==
    LET fr == Dict([vc \in VehicleClassSet |->
                  fraction(cyc, link.scaling_road_type, day_type, vc, hour)])
    IN  IF \E vc \in VehicleClassSet : IsRaised(fr[vc])
        THEN Raise(MissingTemporalProfile)
        ELSE
        LET volume == Dict([vc \in VehicleClassSet |-> link.dtv[vc] * fr[vc].value])
            TraSit == calc_los_class(thresholds, link.hbefa_speed, link.hour_capacity,
                                     car_units(volume), link.road_type)
        IN  IF IsRaised(TraSit) THEN TraSit
            ELSE
            LET em == Dict([k \in Keys |->
                          calculate_emissions(efd, k[1], volume[k[1]], TraSit.value,
                                              link.hbefa_gradient, k[2])])
            IN  IF \E k \in Keys : IsRaised(em[k])
                THEN Raise(EmissionFactorNotFound)
                ELSE Ok([k \in Keys |-> em[k].value * link.length])

-----------------------------------------------------------------------------
(* DailyAggregationTask: every road link, every hour of one date *)

Record(date, r, hour) ==
    calculate_record(cycles, ef_dict, vcr_thresholds, visum[r], calendar[date], hour)

\* the outcome of the calculator for every link and hour of the date
hourly_records(date) ==
    Dict([r \in LinkIds |-> Dict([h \in Hours |-> Record(date, r, h)])])

\* an accumulation whose loop starts at hour 1
RECURSIVE SumHours_skip_midnight(_, _, _)
SumHours_skip_midnight(recs, k, hour) ==
    IF hour < 1 THEN 0
    ELSE (IF IsRaised(recs[hour]) THEN 0 ELSE recs[hour].value[k])
         + SumHours_skip_midnight(recs, k, hour - 1)

RECURSIVE SumHours(_, _, _)
SumHours(recs, k, hour) ==
    IF hour < 0 THEN 0
    ELSE (IF IsRaised(recs[hour]) THEN 0 ELSE recs[hour].value[k])
         + SumHours(recs, k, hour - 1)

\* a link gets its entry with the first hour that succeeds
daily_result(recs) ==
    [r \in {l \in LinkIds : \E h \in Hours : ~IsRaised(recs[l][h])} |->
        [k \in Keys |-> SumHours(recs[r], k, NumHours - 1)]]

ErrorRecord(date, r, hour, kind) ==
    [date |-> date, road_link_id |-> r, hour |-> hour, error_kind |-> kind]

\* a task that records its first error only
daily_errors_first_only(date, recs, n) ==
    LET bad == {i \in 1 .. n : IsRaised(recs[((i - 1) \div NumHours) + 1][(i - 1) % NumHours])}
    IN  IF bad = {} THEN <<>>
        ELSE LET i == CHOOSE j \in bad : \A q \in bad : j <= q
                 r == ((i - 1) \div NumHours) + 1
                 h == (i - 1) % NumHours
             IN  <<ErrorRecord(date, r, h, recs[r][h].raised)>>

\* errors in the order of the loop: link by link, hour by hour
RECURSIVE daily_errors(_, _, _)
daily_errors(date, recs, n) ==
    IF n = 0 THEN <<>>
    ELSE LET r == ((n - 1) \div NumHours) + 1
             h == (n - 1) % NumHours
         IN  IF IsRaised(recs[r][h])
             THEN Append(daily_errors(date, recs, n - 1),
                         ErrorRecord(date, r, h, recs[r][h].raised))
             ELSE daily_errors(date, recs, n - 1)

process_daily_emissions(date) ==
    LET recs == hourly_records(date)
    IN  [em_sum_dict |-> daily_result(recs),
         errors |-> daily_errors(date, recs, NumLinks * NumHours)]

-----------------------------------------------------------------------------
(* ParallelDispatcher: the multiprocessing cell *)

NoCall == [op |-> "none"]

InitConfig ==
    /\ visum \in [LinkIds -> LinkTemplates]
    /\ cycles \in CyclesStores
    /\ ef_dict \in {EFComplete, EFNoStGo2PC}
    /\ vcr_thresholds \in ThresholdTables
    /\ calendar \in [Dates -> DayTypes]
    /\ worker_count \in {1, MaxWorkers}

InitDispatch ==
    /\ pc = "starmap"
    /\ pending = Dates
    /\ running = {}
    /\ result_queue = <<>>
    /\ error_queue = <<>>
    /\ result = <<>>
    /\ errors = <<>>

Init ==
    /\ InitConfig
    /\ InitDispatch
    /\ call = NoCall
    /\ ret = NoCall

\* positions in which pool.starmap has not returned or raised yet; in
\* "starmap_failed" a task has raised and starmap is going to re-raise
StarmapRunning == {"starmap", "starmap_failed"}

\* a pool that hands a date out without taking it off the list
TaskStart_keep_pending ==
    /\ pc \in StarmapRunning
    /\ pending # {}
    /\ Cardinality(running) < worker_count
    /\ LET d == CHOOSE x \in pending : \A y \in pending : x <= y
       IN  /\ pending' = pending
           /\ running' = running \cup {d}
    /\ UNCHANGED <<config_vars, pc, result_queue, error_queue, result, errors, call, ret>>

\* pool.starmap hands the dates out in list order to a free worker
TaskStart ==
    /\ pc \in StarmapRunning
    /\ pending # {}
    /\ Cardinality(running) < worker_count
    /\ LET d == CHOOSE x \in pending : \A y \in pending : x <= y
       IN  /\ pending' = pending \ {d}
           /\ running' = running \cup {d}
    /\ UNCHANGED <<config_vars, pc, result_queue, error_queue, result, errors, call, ret>>

\* a task that writes into the road-link records it was handed, the records
\* being shared with the dispatcher
TaskFinish_writes_links(d) ==
    /\ pc \in StarmapRunning
    /\ d \in running
    /\ LET out == process_daily_emissions(d)
       IN  /\ result_queue' = Append(result_queue, out.em_sum_dict)
           /\ error_queue' = error_queue \o out.errors
    /\ running' = running \ {d}
    /\ visum' = [r \in LinkIds |-> CHOOSE t \in LinkTemplates : t # visum[r]]
    /\ UNCHANGED <<cycles, ef_dict, vcr_thresholds, calendar, worker_count, pc, pending,
                   result, errors, call, ret>>

\* a task ends: its result and its errors go to the two queues
TaskFinish(d) ==
    /\ pc \in StarmapRunning
    /\ d \in running
    /\ LET out == process_daily_emissions(d)
       IN  /\ result_queue' = Append(result_queue, out.em_sum_dict)
           /\ error_queue' = error_queue \o out.errors
    /\ running' = running \ {d}
    /\ UNCHANGED <<config_vars, pc, pending, result, errors, call, ret>>

\* a task whose failure outside its loop is put on the error queue like the
\* error of a record
TaskCrash_recorded(d) ==
    /\ pc \in StarmapRunning
    /\ d \in running
    /\ running' = running \ {d}
    /\ error_queue' = Append(error_queue, ErrorRecord(d, 0, 0, "Fatal"))
    /\ UNCHANGED <<config_vars, pc, pending, result_queue, result, errors, call, ret>>

\* a task raises outside its per-record loop: the worker sends the exception
\* back as the outcome of the task, and nothing is put on the queues
TaskCrash(d) ==
    /\ pc \in StarmapRunning
    /\ d \in running
    /\ running' = running \ {d}
    /\ pc' = "starmap_failed"
    /\ UNCHANGED <<config_vars, pending, result_queue, error_queue, result, errors,
                   call, ret>>

\* pool.starmap re-raises the exception of the task (at once or when the other
\* tasks have ended, depending on the interpreter); leaving the with-blocks
\* terminates the pool, and the rest of the cell is not run
StarmapRaise ==
    /\ pc = "starmap_failed"
    /\ pc' = "Fatal"
    /\ running' = {}
    /\ UNCHANGED <<config_vars, pending, result_queue, error_queue, result, errors,
                   call, ret>>

\* starmap returns and the pool block is left once every task has ended
PoolClose ==
    /\ pc = "starmap"
    /\ pending = {}
    /\ running = {}
    /\ pc' = "get_first"
    /\ UNCHANGED <<config_vars, pending, running, result_queue, error_queue, result,
                   errors, call, ret>>

\* result = result_queue.get()
GetFirst ==
    /\ pc = "get_first"
    /\ result_queue # <<>>
    /\ result' = Head(result_queue)
    /\ result_queue' = Tail(result_queue)
    /\ pc' = "reduce"
    /\ UNCHANGED <<config_vars, pending, running, error_queue, errors, call, ret>>

\* "=" written for "+=": the entry is overwritten
add_emissions_overwrite(emissions, new_emissions) ==
    [component \in DOMAIN emissions |-> new_emissions[component]]

add_emissions(emissions, new_emissions) ==
    [component \in DOMAIN emissions |-> emissions[component] + new_emissions[component]]

\* the nested loops over result.items(): the links of result in insertion order;
\* new_result[road_index] raises KeyError at the first link new_result lacks,
\* and the links before it are already updated
reduce_into(res, new_result) ==
    LET lacking == {r \in DOMAIN res : r \notin DOMAIN new_result}
        stop == IF lacking = {} THEN NumLinks + 1
                ELSE CHOOSE r \in lacking : \A q \in lacking : r <= q
    IN  [result |-> [r \in DOMAIN res |->
                        IF r < stop THEN add_emissions(res[r], new_result[r]) ELSE res[r]],
         raised |-> lacking # {}]

\* one pass of "while not result_queue.empty()"
ReduceStep ==
    /\ pc = "reduce"
    /\ result_queue # <<>>
    /\ LET out == reduce_into(result, Head(result_queue))
       IN  /\ result' = out.result
           /\ pc' = IF out.raised THEN "KeyError" ELSE "reduce"
    /\ result_queue' = Tail(result_queue)
    /\ UNCHANGED <<config_vars, pending, running, error_queue, errors, call, ret>>

ReduceEnd ==
    /\ pc = "reduce"
    /\ result_queue = <<>>
    /\ pc' = "errors"
    /\ UNCHANGED <<config_vars, pending, running, result_queue, error_queue, result,
                   errors, call, ret>>

\* while not error_queue.empty(): errors.append(error_queue.get())
\* a loop that leaves after the first error
drain_first_only(queue) == IF queue = <<>> THEN <<>> ELSE <<Head(queue)>>

drain(queue) == queue

\* a drain that also runs while the pool is working
RetrieveErrors_early ==
    /\ pc \in {"starmap", "errors"}
    /\ errors' = errors \o drain(error_queue)
    /\ error_queue' = <<>>
    /\ pc' = IF pc = "errors" THEN "done" ELSE pc
    /\ UNCHANGED <<config_vars, pending, running, result_queue, result, call, ret>>

RetrieveErrors ==
    /\ pc = "errors"
    /\ errors' = errors \o drain(error_queue)
    /\ error_queue' = <<>>
    /\ pc' = "done"
    /\ UNCHANGED <<config_vars, pending, running, result_queue, result, call, ret>>

Next ==
    \/ TaskStart
    \/ \E d \in Dates : TaskFinish(d)
    \/ \E d \in Dates : TaskCrash(d)
    \/ StarmapRaise
    \/ PoolClose
    \/ GetFirst
    \/ ReduceStep
    \/ ReduceEnd
    \/ RetrieveErrors

Spec == Init /\ [][Next]_vars

-----------------------------------------------------------------------------
(* Quantities the properties of the dispatch cell are stated in *)

RECURSIVE SumFn(_, _)
SumFn(f, S) ==
    IF S = {} THEN 0
    ELSE LET x == CHOOSE y \in S : TRUE
         IN  f[x] + SumFn(f, S \ {x})

Returned == pc = "done"
Aborted == pc = "KeyError"

\* the daily result of every date of the range
DailyResults == Dict([d \in Dates |-> daily_result(hourly_records(d))])

\* the records (date, link, hour) whose calculation raised
Failed ==
    {x \in Dates \X LinkIds \X Hours : IsRaised(Record(x[1], x[2], x[3]))}

\* value of key k summed over the given records, all of which succeeded
SumRecords(S, k) ==
    SumFn([x \in S |-> Record(x[1], x[2], x[3]).value[k]], S)

Tagged(e, x) == e.date = x[1] /\ e.road_link_id = x[2] /\ e.hour = x[3]

\* the aggregate, or the KeyError, that dequeuing the daily results in this order gives
RECURSIVE ReduceFrom(_, _, _)
ReduceFrom(res, order, i) ==
    IF i > Len(order) THEN [result |-> res, raised |-> FALSE]
    ELSE LET out == reduce_into(res, DailyResults[order[i]])
         IN  IF out.raised THEN [result |-> <<>>, raised |-> TRUE]
             ELSE ReduceFrom(out.result, order, i + 1)

OutcomeOf(order) == ReduceFrom(DailyResults[order[1]], order, 2)

AscendingDates == [i \in 1 .. NumDates |-> i]

-----------------------------------------------------------------------------
(* C1: the outcome of the run is the same for every order in which the daily
   results are completed and dequeued: whatever the completion order was, the
   run ends with the aggregate that dequeuing the dates in ascending order
   gives. *)
C1_OrderIndependent ==
    (Returned \/ Aborted) =>
        LET asc == OutcomeOf(AscendingDates)
        IN  /\ Aborted = asc.raised
            /\ Returned => result = asc.result

(* C2: after the run has returned, the result queue is empty and every
   road link that occurs in a daily result has, for every (vehicle class,
   component), the sum of its values over all daily results in the aggregate. *)
C2_AggregateIsSumOfAll ==
    Returned =>
        /\ result_queue = <<>>
        /\ \A r \in LinkIds :
              LET has == {d \in Dates : r \in DOMAIN DailyResults[d]}
              IN  IF has = {} THEN r \notin DOMAIN result
                  ELSE /\ r \in DOMAIN result
                       /\ \A k \in Keys :
                             result[r][k] =
                                 SumFn([d \in has |-> DailyResults[d][r][k]], has)

(* C3: when exactly one record (date D, link r, hour h) fails, the run returns,
   the aggregate of every link and key is the sum of the values of all other
   records, and the error list is exactly one record, tagged (D, r, h). *)
C3_SingleFailureIsolated ==
    (pc \in {"done", "KeyError"} /\ Cardinality(Failed) = 1) =>
        LET x == CHOOSE y \in Failed : TRUE
        IN  /\ Returned
            /\ Len(errors) = 1
            /\ Tagged(errors[1], x)
            /\ DOMAIN result = LinkIds
            /\ \A r \in LinkIds : \A k \in Keys :
                  result[r][k] =
                      SumRecords({y \in (Dates \X {r} \X Hours) \ Failed : TRUE}, k)

C3_Witness ==
    /\ Returned
    /\ Cardinality(Failed) = 1
    /\ Len(errors) = 1
    /\ \E r \in DOMAIN result : result[r][<<"PC", "CO2(total)">>] > 0

(* C4: the run ends by returning; the returned error list holds every error a
   task put on the error queue exactly once, and the error queue is empty, also
   when there are errors. *)
C4_AllErrorsReturned ==
    (Returned \/ Aborted) =>
        /\ Returned
        /\ error_queue = <<>>
        /\ Len(errors) = Cardinality(Failed)
        /\ \A x \in Failed : \E i \in 1 .. Len(errors) : Tagged(errors[i], x)

(* C5: in a returned run, a road link without an error record in the error list
   has no failed record, and its aggregate is the full sum over all dates and
   all hours for every (vehicle class, component). *)
C5_NoSilentZero ==
    Returned =>
        \A r \in LinkIds :
            (\A i \in 1 .. Len(errors) : errors[i].road_link_id # r) =>
                /\ \A d \in Dates : \A h \in Hours : ~IsRaised(Record(d, r, h))
                /\ r \in DOMAIN result
                /\ \A k \in Keys :
                      result[r][k] = SumRecords(Dates \X {r} \X Hours, k)

C5_Witness ==
    /\ Returned
    /\ errors # <<>>
    /\ \E r \in LinkIds :
          /\ \A i \in 1 .. Len(errors) : errors[i].road_link_id # r
          /\ r \in DOMAIN result
          /\ result[r][<<"PC", "CO2(total)">>] > 0

-----------------------------------------------------------------------------
(* Direct calls of the functions, with the dispatch cell idle: one call in a run *)

IdleDispatch ==
    /\ pc = "idle"
    /\ pending = {}
    /\ running = {}
    /\ result_queue = <<>>
    /\ error_queue = <<>>
    /\ result = <<>>
    /\ errors = <<>>

DefaultNetwork ==
    /\ visum = [r \in LinkIds |-> Link("Distributor/Secondary", "0%", 50, 1000, 5, 2000, 0)]
    /\ calendar = [d \in Dates |-> "weekday"]
    /\ worker_count = 1

GradientInputs == TableGradients \cup LinkGradients
VolumeInputs == {0, 1, 20000}

(* calculate_emissions of the detector notebook *)

InitLookup ==
    /\ DefaultNetwork
    /\ cycles = CyclesStore({})
    /\ ef_dict \in EFTables
    /\ vcr_thresholds = vcr_thresholds_notebook
    /\ IdleDispatch
    /\ call = NoCall
    /\ ret = NoCall

CallCalculateEmissions ==
    \E TraSit \in LOSSet, vc \in VehicleClassSet, g \in GradientInputs,
       c \in ComponentSet, v \in VolumeInputs :
        /\ call = NoCall
        /\ call' = [op |-> "calculate_emissions", vehicle_class |-> vc,
                    vehicle_volume |-> v, TraSit |-> TraSit, hbefa_gradient |-> g,
                    component |-> c]
        /\ ret' = [ef |-> ef_lookup(ef_dict, TraSit, vc, g, c),
                   emission |-> calculate_emissions(ef_dict, vc, v, TraSit, g, c)]
        /\ UNCHANGED <<config_vars, dispatch_vars>>

NextLookup == CallCalculateEmissions

SpecLookup == InitLookup /\ [][NextLookup]_vars

(* calc_los_class, and the replacement of the thresholds of the hbefa object *)

RoadTypeInputs == DOMAIN vcr_thresholds_notebook \cup {"none"}
CapacityInputs == {-1, 0, 200, 1000}

InitClassify ==
    /\ DefaultNetwork
    /\ cycles = CyclesStore({})
    /\ ef_dict = EFComplete
    /\ vcr_thresholds \in ThresholdTables
    /\ IdleDispatch
    /\ call = NoCall
    /\ ret = NoCall

\* hbefa.vcr_thresholds = vcr_thresholds
SetThresholds ==
    \E t \in ThresholdTables :
        /\ vcr_thresholds' = t
        /\ UNCHANGED <<visum, cycles, ef_dict, calendar, worker_count, dispatch_vars,
                       call, ret>>

\* a volume at, or one hundredth of a car unit below, a whole percent of the capacity
\* (of 100 vehicles an hour where the link has no positive capacity)
CallClassify ==
    \E rt \in RoadTypeInputs, cap \in CapacityInputs, pct \in 0 .. MaxVcrPct,
       off \in {-1, 0} :
        LET htv == pct * (IF cap > 0 THEN cap ELSE 100) + off
        IN  /\ call = NoCall
            /\ htv >= 0
            /\ call' = [op |-> "calc_los_class", road_type |-> rt, hour_capacity |-> cap,
                        htv_car_unit |-> htv, thresholds |-> vcr_thresholds]
            /\ ret' = calc_los_class(vcr_thresholds, 50, cap, htv, rt)
            /\ UNCHANGED <<config_vars, dispatch_vars>>

NextClassify == SetThresholds \/ CallClassify

SpecClassify == InitClassify /\ [][NextClassify]_vars

(* the calculator for one road link and one hour *)

\* the end-to-end example: capacity 1000, 2000 passenger cars a day, 0.5 km
ExampleLink == Link("Distributor/Secondary", "0%", 50, 1000, 5, 2000, 0)

CalcLinks ==
    LinkTemplates \cup {ExampleLink, Link("TrunkRoad/Primary-City", "-2%", 50, 800, 12, 9000, 700)}

InitCalc ==
    /\ DefaultNetwork
    /\ cycles \in CyclesStores
    /\ ef_dict \in EFTables
    /\ vcr_thresholds \in ThresholdTables
    /\ IdleDispatch
    /\ call = NoCall
    /\ ret = NoCall

CallCalculator ==
    \E link \in CalcLinks, dt \in DayTypes, h \in Hours :
        /\ call = NoCall
        /\ call' = [op |-> "calculate_record", link |-> link, day_type |-> dt, hour |-> h]
        /\ ret' = calculate_record(cycles, ef_dict, vcr_thresholds, link, dt, h)
        /\ UNCHANGED <<config_vars, dispatch_vars>>

NextCalc == CallCalculator

SpecCalc == InitCalc /\ [][NextCalc]_vars

-----------------------------------------------------------------------------
(* C6: the lookup returns the factor stored under the exact key when the table
   holds it, otherwise the factor stored under the same key with the gradient
   '0%' when the table holds that, otherwise it raises and returns no value;
   the emission is the volume times the factor that was found. *)
C6_LookupFallback ==
    call.op = "calculate_emissions" =>
        LET exact == <<year, call.TraSit, call.vehicle_class, call.hbefa_gradient,
                       call.component>>
            flat  == <<year, call.TraSit, call.vehicle_class, "0%", call.component>>
        IN  IF exact \in DOMAIN ef_dict
            THEN /\ ret.ef = [value |-> ef_dict[exact]]
                 /\ ret.emission = [value |-> call.vehicle_volume * ef_dict[exact]]
            ELSE IF flat \in DOMAIN ef_dict
            THEN /\ ret.ef = [value |-> ef_dict[flat]]
                 /\ ret.emission = [value |-> call.vehicle_volume * ef_dict[flat]]
            ELSE /\ ret.ef = [raised |-> EmissionFactorNotFound]
                 /\ ret.emission = [raised |-> EmissionFactorNotFound]

\* a gradient the table lacks, answered with the flat-gradient factor
C6_Witness ==
    /\ call.op = "calculate_emissions"
    /\ <<year, call.TraSit, call.vehicle_class, call.hbefa_gradient, call.component>>
           \notin DOMAIN ef_dict
    /\ call.hbefa_gradient # "0%"
    /\ <<year, call.TraSit, call.vehicle_class, "0%", call.component>> \in DOMAIN ef_dict
    /\ ret.ef = [value |->
                    ef_dict[<<year, call.TraSit, call.vehicle_class, "0%", call.component>>]]
    /\ ret.ef.value > 0

(* C7: for a configured road type with breakpoints (t1,t2,t3,t4) and a positive
   capacity the classifier returns exactly one band: Freeflow iff VCR < t1,
   Heavy iff t1 <= VCR < t2, Satur. iff t2 <= VCR < t3, St+Go iff
   t3 <= VCR < t4, St+Go2 iff VCR >= t4; a VCR equal to a breakpoint is in the
   upper band, and breakpoints (0.3,0.5,0.7,0.9) with VCR 1.0 give St+Go2. *)
C7_BandsByBreakpoints ==
    (/\ call.op = "calc_los_class"
     /\ call.road_type \in DOMAIN call.thresholds
     /\ call.hour_capacity > 0) =>
        LET t == call.thresholds[call.road_type]
            c == call.hour_capacity
            v == call.htv_car_unit
        IN  /\ ~IsRaised(ret)
            /\ ret.value \in LOSSet
            /\ ret.value = "Freeflow" <=> v < t[1] * c
            /\ ret.value = "Heavy" <=> (t[1] * c <= v /\ v < t[2] * c)
            /\ ret.value = "Satur." <=> (t[2] * c <= v /\ v < t[3] * c)
            /\ ret.value = "St+Go" <=> (t[3] * c <= v /\ v < t[4] * c)
            /\ ret.value = "St+Go2" <=> v >= t[4] * c
            /\ (t = <<30, 50, 70, 90>> /\ v = 100 * c) => ret.value = "St+Go2"

\* VCR 1.0 under the breakpoints (0.3,0.5,0.7,0.9)
C7_Witness ==
    /\ call.op = "calc_los_class"
    /\ call.road_type \in DOMAIN call.thresholds
    /\ call.thresholds[call.road_type] = <<30, 50, 70, 90>>
    /\ call.hour_capacity = 200
    /\ call.htv_car_unit = 100 * 200
    /\ ret = [value |-> "St+Go2"]

(* C8: for a configured road type and a positive capacity, a volume-capacity
   ratio that is not smaller never gets an earlier band, and one that is not
   larger never gets a later band, in the order Freeflow < Heavy < Satur. <
   St+Go < St+Go2. *)
C8_Monotonic ==
    (/\ call.op = "calc_los_class"
     /\ call.road_type \in DOMAIN call.thresholds
     /\ call.hour_capacity > 0) =>
        /\ ~IsRaised(ret)
        /\ \A pct \in 0 .. MaxVcrPct :
              LET v2 == pct * call.hour_capacity
                  other == calc_los_class(call.thresholds, 50, call.hour_capacity, v2,
                                          call.road_type)
              IN  /\ ~IsRaised(other)
                  /\ v2 >= call.htv_car_unit => LOSIndex(other.value) >= LOSIndex(ret.value)
                  /\ v2 <= call.htv_car_unit => LOSIndex(other.value) <= LOSIndex(ret.value)

\* a call in a middle band, with lower and higher ratios in other bands
C8_Witness ==
    /\ call.op = "calc_los_class"
    /\ call.road_type = "Access-residential"
    /\ call.hour_capacity = 1000
    /\ ret = [value |-> "Satur."]
    /\ calc_los_class(call.thresholds, 50, 1000, 0, call.road_type) = [value |-> "Freeflow"]
    /\ calc_los_class(call.thresholds, 50, 1000, MaxVcrPct * 1000, call.road_type)
           = [value |-> "St+Go2"]

(* C9: for one road link and hour the calculator returns, for every (vehicle
   class c, component p), hourly_volume[c] x EF x length, where hourly_volume[c]
   is the daily volume of c times the fraction of the hour, the traffic
   condition is the class of the car-unit weighted sum of the hourly volumes
   against the capacity, and EF is the factor of (year, condition, c, gradient,
   p) or, failing that gradient, of the flat gradient.  For 2000 passenger cars
   a day, 10 % in the hour, capacity 1000, breakpoints (0.3,0.5,0.7,0.9), factor
   0.12 and 0.5 km: hourly volume 200, VCR 0.2, Freeflow, 12 g. *)
C9_EmissionFormula ==
    (call.op = "calculate_record" /\ ~IsRaised(ret)) =>
        LET link == call.link
            hv == [c \in VehicleClassSet |->
                      link.dtv[c]
                      * cycles[<<link.scaling_road_type, call.day_type, c>>][call.hour + 1]]
            pcu == SumFn([c \in VehicleClassSet |-> hv[c] * car_unit_factors[c]],
                         VehicleClassSet)
            cond == calc_los_class(vcr_thresholds, link.hbefa_speed, link.hour_capacity,
                                   pcu, link.road_type).value
            EF == [k \in Keys |->
                      IF <<year, cond, k[1], link.hbefa_gradient, k[2]>> \in DOMAIN ef_dict
                      THEN ef_dict[<<year, cond, k[1], link.hbefa_gradient, k[2]>>]
                      ELSE ef_dict[<<year, cond, k[1], "0%", k[2]>>]]
        IN  /\ \A k \in Keys : ret.value[k] = hv[k[1]] * EF[k] * link.length
            /\ (/\ link = ExampleLink
                 /\ call.day_type = "weekday"
                 /\ call.hour = 8
                 /\ vcr_thresholds["Distributor/Secondary"] = <<30, 50, 70, 90>>) =>
                    /\ hv["PC"] = 20000
                    /\ pcu = 20 * link.hour_capacity
                    /\ cond = "Freeflow"
                    /\ EF[<<"PC", "CO2(total)">>] = 12
                    /\ ret.value[<<"PC", "CO2(total)">>] = 1200000

\* the end-to-end example has been calculated
C9_Witness ==
    /\ call.op = "calculate_record"
    /\ call.link = ExampleLink
    /\ call.day_type = "weekday"
    /\ call.hour = 8
    /\ vcr_thresholds = vcr_thresholds_single
    /\ ~IsRaised(ret)
    /\ ret.value[<<"PC", "CO2(total)">>] = 1200000

(* C10: the classifier called with a road type that has no breakpoints in the
   threshold table raises UnknownRoadType and returns no band, whatever the
   volume and the capacity. *)
C10_UnknownRoadTypeFails ==
    (call.op = "calc_los_class" /\ call.road_type \notin DOMAIN call.thresholds) =>
        ret = [raised |-> UnknownRoadType]

\* a road type the single-type calibration table lacks
C10_Witness ==
    /\ call.op = "calc_los_class"
    /\ call.road_type = "Motorway-Nat"
    /\ call.road_type \notin DOMAIN call.thresholds
    /\ call.hour_capacity > 0
    /\ ret = [raised |-> UnknownRoadType]

(* C11: the classifier called with a capacity of zero or less returns no band;
   for a road type that has breakpoints it raises InvalidCapacity, whatever the
   volume (for a road type without breakpoints the lookup of the breakpoints
   has already raised UnknownRoadType). *)
C11_InvalidCapacityFails ==
    (call.op = "calc_los_class" /\ call.hour_capacity <= 0) =>
        /\ IsRaised(ret)
        /\ call.road_type \in DOMAIN call.thresholds =>
               ret = [raised |-> InvalidCapacity]

\* a positive volume on a link of capacity zero
C11_Witness ==
    /\ call.op = "calc_los_class"
    /\ call.hour_capacity = 0
    /\ call.htv_car_unit > 0
    /\ call.road_type \in DOMAIN call.thresholds
    /\ ret = [raised |-> InvalidCapacity]

-----------------------------------------------------------------------------
(* The car-unit sum of the detector notebook:
   _cnt_volume.mul(pd.Series(hbefa.car_unit_factors)).sum(axis = 1) *)

\* vehicle classes of the counting data
CountClasses == {"PC", "HGV", "MOT"}
CountValues == {0, 1, 7}

\* one row of the pivoted counts: a volume for every vehicle-class column
CountVolumes == UNION {[S -> CountValues] : S \in (SUBSET CountClasses) \ {{}}}

\* the factors of the hbefa object, and a table that has a factor for motorcycles too
PcuTables ==
    {car_unit_factors,
     [vc \in CountClasses |-> IF vc = "HGV" THEN 2 ELSE 1]}

\* mul aligns the columns with the index of the factors: a column without a
\* factor becomes NaN, and sum(axis = 1) skips NaN
SUM_PCU(volume, factors) ==
    LET matched == DOMAIN volume \cap DOMAIN factors
    IN  Ok(SumFn([vc \in matched |-> volume[vc] * factors[vc]], matched))

InitPcu ==
    /\ DefaultNetwork
    /\ cycles = CyclesStore({})
    /\ ef_dict = EFComplete
    /\ vcr_thresholds = vcr_thresholds_notebook
    /\ IdleDispatch
    /\ call = NoCall
    /\ ret = NoCall

CallSumPcu ==
    \E volume \in CountVolumes, factors \in PcuTables :
        /\ call = NoCall
        /\ call' = [op |-> "SUM_PCU", volume |-> volume, car_unit_factors |-> factors]
        /\ ret' = SUM_PCU(volume, factors)
        /\ UNCHANGED <<config_vars, dispatch_vars>>

NextPcu == CallSumPcu

SpecPcu == InitPcu /\ [][NextPcu]_vars

(* C12: the car-unit conversion returns the sum of volume x factor over all
   supplied vehicle classes when every supplied class has a factor, and raises
   UnknownVehicleClass, returning no sum, when a supplied class has none. *)
C12_PcuSumOrUnknownClass ==
    call.op = "SUM_PCU" =>
        IF DOMAIN call.volume \subseteq DOMAIN call.car_unit_factors
        THEN ret = [value |->
                       SumFn([vc \in DOMAIN call.volume |->
                                 call.volume[vc] * call.car_unit_factors[vc]],
                             DOMAIN call.volume)]
        ELSE ret = [raised |-> UnknownVehicleClass]

-----------------------------------------------------------------------------
(* The tasks of the pool, seen through what they put on the two queues *)

\* dates whose task has ended
Completed == Dates \ (pending \cup running)

FailedOn(d) == {x \in Failed : x[1] = d}

ErrorsOf(d) == SelectSeq(error_queue, LAMBDA e : e.date = d)

\* what a task owes for link r of date d: the sum of the records that succeeded
PartialSum(d, r) ==
    [k \in Keys |-> SumRecords(({d} \X {r} \X Hours) \ Failed, k)]

(* C13: while the pool runs, every task that has ended has put exactly one error
   record on the error queue for each failed record of its date, tagged with the
   date, the link, the hour and the error, and no other; and it has put a result
   on the result queue that holds, for every link with a successful hour, the
   sum of the successful records of the link, failed records of the same date
   notwithstanding. *)
C13_TaskCatchesPerRecord ==
    pc = "starmap" =>
        /\ \A d \in Dates \ Completed : ErrorsOf(d) = <<>>
        /\ \A d \in Completed :
              LET E == ErrorsOf(d)
                  ok == {r \in LinkIds : \E h \in Hours : <<d, r, h>> \notin Failed}
              IN  /\ Len(E) = Cardinality(FailedOn(d))
                  /\ \A x \in FailedOn(d) :
                        \E i \in 1 .. Len(E) :
                            /\ Tagged(E[i], x)
                            /\ E[i].error_kind = Record(x[1], x[2], x[3]).raised
                            /\ \A j \in 1 .. Len(E) : Tagged(E[j], x) => j = i
                  /\ \E i \in 1 .. Len(result_queue) :
                        result_queue[i] = [r \in ok |-> PartialSum(d, r)]

\* a record failed and a later record of the same date is in the task's result
C13_Witness ==
    /\ pc = "starmap"
    /\ \E d \in Completed : \E x \in FailedOn(d) :
          \E r \in LinkIds, h \in Hours :
              /\ <<d, r, h>> \notin Failed
              /\ r > x[2] \/ (r = x[2] /\ h > x[3])
              /\ \E i \in 1 .. Len(result_queue) :
                    /\ r \in DOMAIN result_queue[i]
                    /\ result_queue[i][r] = PartialSum(d, r)
                    /\ result_queue[i][r][<<"PC", "CO2(total)">>] > 0
              /\ \E i \in 1 .. Len(error_queue) : Tagged(error_queue[i], x)

(* C14: a task covers every link and every hour 0..23 once: the outcomes it
   works from are one per (link, hour), and when no record of its date fails
   its result has every link, with the sum of the 24 hourly values for every
   (vehicle class, component). *)
C14_TaskSumsAllHours ==
    pc = "starmap" =>
        \A d \in Completed :
            LET recs == hourly_records(d)
            IN  /\ DOMAIN recs = LinkIds
                /\ \A r \in LinkIds : DOMAIN recs[r] = 0 .. 23
                /\ FailedOn(d) = {} =>
                      \E i \in 1 .. Len(result_queue) :
                          result_queue[i] =
                              [r \in LinkIds |->
                                  [k \in Keys |-> SumRecords({d} \X {r} \X (0 .. 23), k)]]

\* a task without failures has ended; hour 0 carries a part of its sum
C14_Witness ==
    /\ pc = "starmap"
    /\ \E d \in Completed :
          /\ FailedOn(d) = {}
          /\ \E i \in 1 .. Len(result_queue) :
                /\ DOMAIN result_queue[i] = LinkIds
                /\ \A r \in LinkIds :
                      /\ result_queue[i][r] = PartialSum(d, r)
                      /\ Record(d, r, 0).value[<<"PC", "CO2(total)">>] > 0

-----------------------------------------------------------------------------
(* The pool *)

\* the result queue holds the daily result of each date of D once, in some order
HoldsResultsOf(D) ==
    /\ Len(result_queue) = Cardinality(D)
    /\ \E f \in [1 .. Len(result_queue) -> D] :
          /\ \A i, j \in DOMAIN f : f[i] = f[j] => i = j
          /\ \A i \in DOMAIN f : result_queue[i] = DailyResults[f[i]]

(* C15: for every pool size, smaller than the number of dates included, every
   date is handed to a worker once: a date is never both waiting and running,
   at most worker_count tasks run at a time, a date leaves the waiting list
   only to start running and never comes back, a running date leaves only by
   ending, and as long as no task has raised the result queue holds one daily
   result per ended task - one per date of the range when the pool is closed. *)
C15_OneTaskPerDate ==
    /\ [](/\ pending \cap running = {}
          /\ Cardinality(running) <= worker_count
          /\ pc = "starmap" => HoldsResultsOf(Completed)
          /\ pc = "get_first" => (Completed = Dates /\ HoldsResultsOf(Dates)))
    /\ [][pc' \in {"starmap", "get_first"} =>
             /\ pending' \subseteq pending
             /\ pending \ pending' = running' \ running
             /\ Cardinality(running' \ running) <= 1
             /\ Completed \subseteq Completed'
             /\ Cardinality(Completed' \ Completed) <= 1
             /\ Len(result_queue') = Len(result_queue)
                                        + Cardinality(Completed' \ Completed)]_vars

\* a pool of one worker has worked through a range of several dates
C15_Witness ==
    /\ worker_count = 1
    /\ worker_count < NumDates
    /\ pc = "get_first"
    /\ Len(result_queue) = NumDates
    /\ \A d \in Dates : \E i \in 1 .. Len(result_queue) : result_queue[i] = DailyResults[d]

(* C16: a task that raises outside its per-record loop puts no record on the
   error queue; the run then ends in the exception, from where nothing more is
   done, with neither an aggregate nor an error list assigned. *)
C16_FatalErrorPropagates ==
    /\ [](pc \in {"starmap_failed", "Fatal"} => (result = <<>> /\ errors = <<>>))
    /\ [][/\ pc # "Fatal"
          /\ (running' # running /\ running' \subseteq running
                 /\ result_queue' = result_queue) =>
                (pc' \in {"starmap_failed", "Fatal"} /\ error_queue' = error_queue)
          /\ pc = "starmap_failed" => pc' \in {"starmap_failed", "Fatal"}]_vars

\* the run has ended in the exception although other tasks had put a result
\* and errors on the queues
C16_Witness ==
    /\ pc = "Fatal"
    /\ result_queue # <<>>
    /\ error_queue # <<>>
    /\ result = <<>>
    /\ errors = <<>>

(* C17: no error is taken off the error queue while a date is waiting or a
   task is running or before the pool block is left; when the drain starts
   every failed record of every date has its error on the queue, and the
   error list stays empty until then. *)
C17_DrainAfterPoolClosed ==
    /\ [](/\ errors # <<>> => pc = "done"
          /\ pc = "errors" =>
                /\ pending = {} /\ running = {}
                /\ Len(error_queue) = Cardinality(Failed)
                /\ \A x \in Failed :
                      \E i \in 1 .. Len(error_queue) : Tagged(error_queue[i], x))
    /\ [][(Len(error_queue') < Len(error_queue) \/ errors' # errors) =>
             (pc = "errors" /\ pending = {} /\ running = {})]_vars

\* the drain has returned errors of two dates, which ended at different times
C17_Witness ==
    /\ pc = "done"
    /\ error_queue = <<>>
    /\ \E i, j \in 1 .. Len(errors) : errors[i].date # errors[j].date

-----------------------------------------------------------------------------
(* C18: the reduction never fails with a KeyError, and the returned aggregate
   has an entry for every road link that occurs in any daily result, with
   every (vehicle class, component) key, also when the first dequeued result
   lacks links that other results have or a later result lacks links of the
   first. *)
C18_ZeroInitReduction ==
    /\ ~Aborted
    /\ Returned =>
          \A d \in Dates : \A r \in DOMAIN DailyResults[d] :
              /\ r \in DOMAIN result
              /\ DOMAIN result[r] = Keys

(* C19: no step of the run changes the road-link records, the temporal
   profiles or the emission-factor table; the aggregate is written only by
   the dispatcher after the pool block, and while the dispatcher reduces it
   writes nothing but the aggregate (and takes daily results off the result
   queue). *)
C19_InputsNeverWritten ==
    [][/\ UNCHANGED <<visum, cycles, ef_dict>>
       /\ result' # result => pc \in {"get_first", "reduce"}
       /\ pc \in {"get_first", "reduce"} =>
             UNCHANGED <<pending, running, error_queue, errors, vcr_thresholds, calendar,
                         worker_count>>]_vars

\* tasks have run and the reduction has written an aggregate that is no
\* single daily result
C19_Witness ==
    /\ Returned
    /\ DOMAIN result = LinkIds
    /\ \A d \in Dates : result # DailyResults[d]
    /\ visum \in [LinkIds -> LinkTemplates]

(* C20: the threshold table of a constructed classifier object never changes:
   no step replaces vcr_thresholds. *)
C20_ThresholdsFixedAfterConstruction ==
    [][vcr_thresholds' = vcr_thresholds]_vars

-----------------------------------------------------------------------------
(* TemporalProfileStore: the strict and the fallback-aware lookup *)

\* the vehicle class whose profile stands in for a missing one
DefaultVehicleClass == "PC"

\* a store in which the classes have different profiles
CyclesByClass(missing) ==
    [k \in (ScalingRoadTypeSet \X DayTypes \X VehicleClassSet) \ missing |->
        IF (k[2] = "weekday") = (k[3] = DefaultVehicleClass)
        THEN ProfileWeekday ELSE ProfileWeekend]

\* complete; no profile for heavy goods vehicles on secondary roads; no profile
\* at all for motorways at the weekend
ProfileStores ==
    {CyclesByClass({}),
     CyclesByClass({<<"Distributor/Secondary", dt, "HGV">> : dt \in DayTypes}),
     CyclesByClass({<<"Motorway-Nat", "weekend", vc>> : vc \in VehicleClassSet})}

\* a fallback-aware lookup that does not say when it has substituted
fraction_fallback_silent(cyc, scaling_road_type, day_type, vehicle_class, hour) ==
    IF <<scaling_road_type, day_type, vehicle_class>> \in DOMAIN cyc
    THEN [value |-> cyc[<<scaling_road_type, day_type, vehicle_class>>][hour + 1],
          substituted |-> FALSE]
    ELSE IF <<scaling_road_type, day_type, DefaultVehicleClass>> \in DOMAIN cyc
    THEN [value |-> cyc[<<scaling_road_type, day_type, DefaultVehicleClass>>][hour + 1],
          substituted |-> FALSE]
    ELSE Raise(MissingTemporalProfile)

\* fallback-aware lookup: the fraction and whether the default class was substituted
fraction_fallback(cyc, scaling_road_type, day_type, vehicle_class, hour) ==
    IF <<scaling_road_type, day_type, vehicle_class>> \in DOMAIN cyc
    THEN [value |-> cyc[<<scaling_road_type, day_type, vehicle_class>>][hour + 1],
          substituted |-> FALSE]
    ELSE IF <<scaling_road_type, day_type, DefaultVehicleClass>> \in DOMAIN cyc
    THEN [value |-> cyc[<<scaling_road_type, day_type, DefaultVehicleClass>>][hour + 1],
          substituted |-> TRUE]
    ELSE Raise(MissingTemporalProfile)

InitProfile ==
    /\ DefaultNetwork
    /\ cycles \in ProfileStores
    /\ ef_dict = EFComplete
    /\ vcr_thresholds = vcr_thresholds_notebook
    /\ IdleDispatch
    /\ call = NoCall
    /\ ret = NoCall

CallFraction ==
    \E srt \in ScalingRoadTypeSet, dt \in DayTypes, vc \in VehicleClassSet, h \in Hours :
        /\ call = NoCall
        /\ call' = [op |-> "fraction", scaling_road_type |-> srt, day_type |-> dt,
                    vehicle_class |-> vc, hour |-> h]
        /\ ret' = [strict |-> fraction(cycles, srt, dt, vc, h),
                   fallback |-> fraction_fallback(cycles, srt, dt, vc, h)]
        /\ UNCHANGED <<config_vars, dispatch_vars>>

NextProfile == CallFraction

SpecProfile == InitProfile /\ [][NextProfile]_vars

(* C21: for a key that has a fraction vector both lookups return its fraction
   and the fallback-aware one reports no substitution; for a key without one
   the strict lookup raises MissingTemporalProfile and returns no fraction,
   and the fallback-aware lookup returns the fraction of the default vehicle
   class and reports the substitution (and raises MissingTemporalProfile when
   the default class has no vector either): the three outcomes differ. *)
C21_StrictAndFallbackLookup ==
    call.op = "fraction" =>
        LET key  == <<call.scaling_road_type, call.day_type, call.vehicle_class>>
            dkey == <<call.scaling_road_type, call.day_type, DefaultVehicleClass>>
        IN  IF key \in DOMAIN cycles
            THEN /\ ret.strict = [value |-> cycles[key][call.hour + 1]]
                 /\ ret.fallback = [value |-> cycles[key][call.hour + 1],
                                    substituted |-> FALSE]
            ELSE /\ ret.strict = [raised |-> MissingTemporalProfile]
                 /\ IF dkey \in DOMAIN cycles
                    THEN ret.fallback = [value |-> cycles[dkey][call.hour + 1],
                                         substituted |-> TRUE]
                    ELSE ret.fallback = [raised |-> MissingTemporalProfile]

\* the peak-hour fraction of the default class returned for a class without a vector
C21_Witness ==
    /\ call.op = "fraction"
    /\ call.vehicle_class = "HGV"
    /\ call.day_type = "weekday"
    /\ call.hour = 8
    /\ <<call.scaling_road_type, call.day_type, call.vehicle_class>> \notin DOMAIN cycles
    /\ ret.strict = [raised |-> MissingTemporalProfile]
    /\ ret.fallback = [value |-> 10, substituted |-> TRUE]

-----------------------------------------------------------------------------
(* The modelled hourly volume of the volume-uncertainty notebook:
   dtv = traffic_model.loc[id]['dtv_SUM']
   traffic_volume = dtv * traffic_activity.timeprofile[road_type] *)

\* the profile columns of one scaling road type on one day
timeprofile(cyc, road_type, day_type) ==
    [vc \in VehicleClassSet |-> cyc[<<road_type, day_type, vc>>]]

\* every vehicle-class column is multiplied by the total daily volume of the link
modeled_volume(dtv_SUM, profile) ==
    [vc \in DOMAIN profile |-> [i \in DOMAIN profile[vc] |-> dtv_SUM * profile[vc][i]]]

DtvInputs == [PC : {0, 1000, 2000}, HGV : {0, 100, 500}]

InitModeledVolume ==
    /\ DefaultNetwork
    /\ cycles \in {CyclesStore({}), CyclesByClass({})}
    /\ ef_dict = EFComplete
    /\ vcr_thresholds = vcr_thresholds_notebook
    /\ IdleDispatch
    /\ call = NoCall
    /\ ret = NoCall

CallModeledVolume ==
    \E dtv \in DtvInputs, srt \in ScalingRoadTypeSet, dt \in DayTypes :
        /\ call = NoCall
        /\ call' = [op |-> "modeled_volume", dtv |-> dtv, dtv_SUM |-> dtv.PC + dtv.HGV,
                    scaling_road_type |-> srt, day_type |-> dt]
        /\ ret' = modeled_volume(dtv.PC + dtv.HGV, timeprofile(cycles, srt, dt))
        /\ UNCHANGED <<config_vars, dispatch_vars>>

NextModeledVolume == CallModeledVolume

SpecModeledVolume == InitModeledVolume /\ [][NextModeledVolume]_vars

(* C22: for every configured key the 24 fractions are non-negative and sum to
   1 (100 percent), and the 24 hourly volumes derived for a link and a vehicle
   class add up to the daily volume of the link for that class. *)
C22_FractionsSumToOne ==
    /\ \A k \in DOMAIN cycles :
          /\ \A i \in DOMAIN cycles[k] : cycles[k][i] >= 0
          /\ SumFn(cycles[k], DOMAIN cycles[k]) = 100
    /\ call.op = "modeled_volume" =>
          \A vc \in VehicleClassSet :
              SumFn(ret[vc], DOMAIN ret[vc]) = 100 * call.dtv[vc]

-----------------------------------------------------------------------------
(* The dispatch cell with tasks that all end, over a date range that may be
   empty (start_date after end_date) *)

InitLive ==
    /\ InitConfig
    /\ pc = "starmap"
    /\ pending \in {Dates, {}}
    /\ running = {}
    /\ result_queue = <<>>
    /\ error_queue = <<>>
    /\ result = <<>>
    /\ errors = <<>>
    /\ call = NoCall
    /\ ret = NoCall

NextLive ==
    \/ TaskStart
    \/ \E d \in Dates : TaskFinish(d)
    \/ PoolClose
    \/ GetFirst
    \/ ReduceStep
    \/ ReduceEnd
    \/ RetrieveErrors

\* the workers and the dispatcher keep running: a step that can be taken is taken
SpecLive == InitLive /\ [][NextLive]_vars /\ WF_vars(NextLive)

(* C23: when every task ends, the dispatcher eventually gets past its wait for
   the first result, also when the result queue stays empty, and goes on with
   the rest of the run. *)
C23_FirstDequeueEnds == <>(pc \notin {"starmap", "get_first"})

-----------------------------------------------------------------------------
(* The VKT accumulation loops of the calibration notebook (all dates in one
   total) and of the VKT notebook (one total per year).  VKT values are in
   1/1000 vehicle-km: hourly volume (1/100 vehicle) x length (1/10 km). *)

\* vehicle kilometres of one date by traffic condition and vehicle class
calculate_VKT(cyc, thresholds, links, day_type) ==
    LET recs == Dict([x \in (DOMAIN links) \X Hours |->
                    LET link == links[x[1]]
                        volume == [vc \in VehicleClassSet |->
                                      link.dtv[vc]
                                      * fraction(cyc, link.scaling_road_type, day_type,
                                                 vc, x[2]).value]
                    IN  [TraSit |-> calc_los_class(thresholds, link.hbefa_speed,
                                                   link.hour_capacity, car_units(volume),
                                                   link.road_type).value,
                         vkt |-> [vc \in VehicleClassSet |-> volume[vc] * link.length]]])
    IN  [c \in LOSSet |->
            [vc \in VehicleClassSet |->
                LET S == {x \in DOMAIN recs : recs[x].TraSit = c}
                IN  SumFn([x \in S |-> recs[x].vkt[vc]], S)]]

\* dates as (year, day of the range)
VktDateSet == {year, year + 1} \X Dates

FirstDate(S) ==
    CHOOSE d \in S : \A e \in S : d[1] < e[1] \/ (d[1] = e[1] /\ d[2] <= e[2])

\* the dates that go into the total g: those of the year g, or all (g = 0)
GroupDates(D, g) == IF g = 0 THEN D ELSE {d \in D : d[1] = g}

\* final_result = {'Freeflow': np.array(5, float), ...}: np.array(5, float) is
\* the number 5.0, which broadcasts over the vehicle classes when a value is added
final_result_init == [c \in LOSSet |-> [vc \in VehicleClassSet |-> 5 * 1000]]

InitVkt ==
    /\ visum \in [LinkIds -> LinkTemplates]
    /\ calendar \in [Dates -> DayTypes]
    /\ worker_count = 1
    /\ cycles = CyclesStore({})
    /\ ef_dict = EFComplete
    /\ vcr_thresholds = vcr_thresholds_notebook
    /\ IdleDispatch
    /\ call = NoCall
    /\ ret = NoCall

\* the date list is made; the years in it are extracted and sorted
VktStart ==
    \E D \in SUBSET VktDateSet, per_year \in BOOLEAN :
        /\ call = NoCall
        /\ call' = [op |-> "VKT", dates |-> D, pos |-> "next_group", todo |-> {},
                    group |-> 0,
                    groups |-> IF per_year THEN {d[1] : d \in D} ELSE {0}]
        /\ ret' = [final_result |-> <<>>, vkt_result |-> <<>>]
        /\ UNCHANGED <<config_vars, dispatch_vars>>

\* the accumulator of the next total is initialised
VktBeginGroup ==
    /\ call # NoCall
    /\ call.pos = "next_group"
    /\ call.groups # {}
    /\ LET g == CHOOSE x \in call.groups : \A y \in call.groups : x <= y
       IN  call' = [call EXCEPT !.pos = "dates", !.group = g,
                                !.todo = GroupDates(call.dates, g)]
    /\ ret' = [ret EXCEPT !.final_result = final_result_init]
    /\ UNCHANGED <<config_vars, dispatch_vars>>

\* for key, value in cl.items(): final_result[key] = final_result[key] + value
VktAddDate ==
    /\ call # NoCall
    /\ call.pos = "dates"
    /\ call.todo # {}
    /\ LET date == FirstDate(call.todo)
           cl == calculate_VKT(cycles, vcr_thresholds, visum, calendar[date[2]])
       IN  /\ call' = [call EXCEPT !.todo = call.todo \ {date}]
           /\ ret' = [ret EXCEPT !.final_result =
                         [key \in DOMAIN ret.final_result |->
                             [vc \in VehicleClassSet |->
                                 ret.final_result[key][vc] + cl[key][vc]]]]
    /\ UNCHANGED <<config_vars, dispatch_vars>>

\* vkt_result.update({year: final_result})
VktEndGroup ==
    /\ call # NoCall
    /\ call.pos = "dates"
    /\ call.todo = {}
    /\ call' = [call EXCEPT !.pos = "next_group", !.groups = call.groups \ {call.group}]
    /\ ret' = [ret EXCEPT !.vkt_result =
                  [g \in DOMAIN ret.vkt_result \cup {call.group} |->
                      IF g = call.group THEN ret.final_result ELSE ret.vkt_result[g]]]
    /\ UNCHANGED <<config_vars, dispatch_vars>>

VktDone ==
    /\ call # NoCall
    /\ call.pos = "next_group"
    /\ call.groups = {}
    /\ call' = [call EXCEPT !.pos = "done"]
    /\ UNCHANGED <<config_vars, dispatch_vars, ret>>

NextVkt == VktStart \/ VktBeginGroup \/ VktAddDate \/ VktEndGroup \/ VktDone

SpecVkt == InitVkt /\ [][NextVkt]_vars

(* C24: when the loops have ended, every total (the one of all dates, or the
   one of each year that has dates) holds for every traffic condition and
   vehicle class the sum of the calculate_VKT values of the dates of that
   total and nothing else. *)
C24_VktAccumulation ==
    (call # NoCall /\ call.op = "VKT" /\ call.pos = "done") =>
        \A g \in DOMAIN ret.vkt_result :
            LET D == GroupDates(call.dates, g)
                out == Dict([d \in D |->
                          calculate_VKT(cycles, vcr_thresholds, visum, calendar[d[2]])])
            IN  \A c \in LOSSet : \A vc \in VehicleClassSet :
                    ret.vkt_result[g][c][vc] = SumFn([d \in D |-> out[d][c][vc]], D)

-----------------------------------------------------------------------------
(* The counting-data product: the filter for valid rows and the flag for
   incomplete time series *)

\* e = 0.025; sum of the hour values between daily_value * (1 - e) and
\* daily_value * (1 + e), bounds included; then daily_value > 1
filter_valid(daily_value, hourly_sum) ==
    /\ 1000 * hourly_sum >= (1000 - 25) * daily_value
    /\ 1000 * hourly_sum <= (1000 + 25) * daily_value
    /\ daily_value > 1

CountLinkIds == 1 .. (NumLinks + 1)

\* rows of class SUM inside the timeframe, per road link of the dataset
RowCounts == [CountLinkIds -> 0 .. MaxRowCount]

MaxCount(counts) ==
    CHOOSE m \in {counts[r] : r \in DOMAIN counts} : \A r \in DOMAIN counts : counts[r] <= m

\* complete = df / df.max() for the links that have such rows, 0.0 for the
\* others (KeyError); flag: x > completeness_thres (0.8) or x == 0.0
flag_complete(counts) ==
    [r \in DOMAIN counts |->
        IF counts[r] = 0 THEN TRUE
        ELSE 10 * counts[r] > 8 * MaxCount(counts)]

InitCombine ==
    /\ DefaultNetwork
    /\ cycles = CyclesStore({})
    /\ ef_dict = EFComplete
    /\ vcr_thresholds = vcr_thresholds_notebook
    /\ IdleDispatch
    /\ call = NoCall
    /\ ret = NoCall

CallFilterValid ==
    \E dv \in 0 .. MaxDailyValue, hs \in 0 .. (MaxDailyValue + 5) :
        /\ call = NoCall
        /\ call' = [op |-> "filter_valid", daily_value |-> dv, hourly_sum |-> hs]
        /\ ret' = filter_valid(dv, hs)
        /\ UNCHANGED <<config_vars, dispatch_vars>>

CallFlagComplete ==
    \E counts \in RowCounts :
        /\ call = NoCall
        /\ call' = [op |-> "flag_complete", counts |-> counts]
        /\ ret' = flag_complete(counts)
        /\ UNCHANGED <<config_vars, dispatch_vars>>

NextCombine == CallFilterValid \/ CallFlagComplete

SpecCombine == InitCombine /\ [][NextCombine]_vars

(* C25: a road link without rows of class SUM in the timeframe is flagged
   complete = False, and complete = True is given only to links whose share of
   the largest row count exceeds 0.8. *)
C25_IncompleteFlag ==
    (call # NoCall /\ call.op = "flag_complete") =>
        \A r \in DOMAIN call.counts :
            /\ call.counts[r] = 0 => ret[r] = FALSE
            /\ ret[r] = TRUE =>
                  (call.counts[r] > 0 /\ 10 * call.counts[r] > 8 * MaxCount(call.counts))

(* C29: a counting row is kept exactly when the sum of its 24 hour values is
   within 5 % of its daily value and its daily value is at least 1. *)
C29_ValidRowFilter ==
    (call # NoCall /\ call.op = "filter_valid") =>
        (ret <=> (/\ 100 * call.hourly_sum >= 95 * call.daily_value
                  /\ 100 * call.hourly_sum <= 105 * call.daily_value
                  /\ call.daily_value >= 1))

-----------------------------------------------------------------------------
(* Preprocessing of the traffic model: road type, gradient class and speed
   value of a link.  Slopes are in 1/10 percent. *)

Abs(x) == IF x < 0 THEN -x ELSE x

\* str() of an integer
Digit(d) ==
    CASE d = 0 -> "0" [] d = 1 -> "1" [] d = 2 -> "2" [] d = 3 -> "3" [] d = 4 -> "4"
      [] d = 5 -> "5" [] d = 6 -> "6" [] d = 7 -> "7" [] d = 8 -> "8" [] d = 9 -> "9"

RECURSIVE NatStr(_)
NatStr(n) == IF n < 10 THEN Digit(n) ELSE NatStr(n \div 10) \o Digit(n % 10)

str(n) == IF n < 0 THEN "-" \o NatStr(-n) ELSE NatStr(n)

\* min(list, key = ...): the first element of the list with the smallest key
MinByDistance(list, target, scale) ==
    LET i == CHOOSE j \in DOMAIN list :
                 /\ \A k \in DOMAIN list :
                       Abs(scale * list[j] - target) <= Abs(scale * list[k] - target)
                 /\ \A k \in 1 .. (j - 1) :
                       Abs(scale * list[k] - target) > Abs(scale * list[j] - target)
    IN  list[i]

hbefa_gradients == <<-6, -4, -2, 0, 2, 4, 6>>

\* a conversion that cuts the slope off towards the flatter class
hbefa_gradient_class_truncated(visum_gradient) ==
    IF visum_gradient >= 0
    THEN 2 * (IF visum_gradient >= 60 THEN 3 ELSE visum_gradient \div 20)
    ELSE -2 * (IF -visum_gradient >= 60 THEN 3 ELSE (-visum_gradient) \div 20)

hbefa_gradient_class(visum_gradient) == MinByDistance(hbefa_gradients, visum_gradient, 10)

hbefa_road_gradients(visum_gradient) == str(hbefa_gradient_class(visum_gradient)) \o "%"

hbefa_speed_table ==
    [rt \in {"Motorway-Nat", "Motorway-City", "TrunkRoad/Primary-National",
             "TrunkRoad/Primary-City", "Distributor/Secondary", "Local/Collector",
             "Access-residential"} |->
        CASE rt = "Motorway-Nat" -> <<80, 90, 100, 110, 120, 130>>
          [] rt = "Motorway-City" -> <<60, 70, 80, 90, 100, 110>>
          [] rt = "TrunkRoad/Primary-National" -> <<70, 80, 90, 100, 110, 120>>
          [] rt = "TrunkRoad/Primary-City" -> <<50, 60, 70, 80, 90>>
          [] rt = "Distributor/Secondary" -> <<30, 40, 50, 60, 70, 80>>
          [] rt = "Local/Collector" -> <<30, 40, 50, 60>>
          [] rt = "Access-residential" -> <<30, 40, 50>>]

\* the local name hbefa_speed is bound to the table first; when the road type
\* is not a key, the KeyError is caught and printed and the table is what
\* "return hbefa_speed" returns
hbefa_speed_value(hbefa_road_type, speed) ==
    IF hbefa_road_type \in DOMAIN hbefa_speed_table
    THEN [returned |-> "int",
          value |-> MinByDistance(hbefa_speed_table[hbefa_road_type], speed, 1)]
    ELSE [returned |-> "dict", table |-> hbefa_speed_table]

\* a mapping that gives public-transport links (900-999) a road type of their own
hbefa_road_type_public_transport(visum_typeno, speed) ==
    IF 0 <= visum_typeno /\ visum_typeno <= 10 THEN "none"
    ELSE IF 100 <= visum_typeno /\ visum_typeno <= 199 THEN "Motorway-Nat"
    ELSE IF 200 <= visum_typeno /\ visum_typeno <= 499
         THEN (IF speed >= 70 THEN "TrunkRoad/Primary-National" ELSE "Distributor/Secondary")
    ELSE IF 500 <= visum_typeno /\ visum_typeno <= 699 THEN "Distributor/Secondary"
    ELSE IF 700 <= visum_typeno /\ visum_typeno <= 799 THEN "Access-residential"
    ELSE IF 800 <= visum_typeno /\ visum_typeno <= 899 THEN "TrunkRoad/Primary-City"
    ELSE IF 900 <= visum_typeno /\ visum_typeno <= 999 THEN "PublicTransport"
    ELSE "none"

hbefa_road_type(visum_typeno, speed) ==
    IF 0 <= visum_typeno /\ visum_typeno <= 10 THEN "none"
    ELSE IF 100 <= visum_typeno /\ visum_typeno <= 199 THEN "Motorway-Nat"
    ELSE IF 200 <= visum_typeno /\ visum_typeno <= 499
         THEN (IF speed >= 70 THEN "TrunkRoad/Primary-National" ELSE "Distributor/Secondary")
    ELSE IF 500 <= visum_typeno /\ visum_typeno <= 699 THEN "Distributor/Secondary"
    ELSE IF 700 <= visum_typeno /\ visum_typeno <= 799 THEN "Access-residential"
    ELSE IF 800 <= visum_typeno /\ visum_typeno <= 899 THEN "TrunkRoad/Primary-City"
    ELSE IF 900 <= visum_typeno /\ visum_typeno <= 999 THEN "none"
    ELSE "none"

\* one link through the data-processing cell: road type, drop of 'none', speed
\* value, and the scaling road type (.map gives NaN for a type without entry)
preprocess_link(visum_typeno, speed) ==
    LET road_type == hbefa_road_type(visum_typeno, speed)
    IN  IF road_type = "none"
        THEN [road_type |-> road_type, dropped |-> TRUE]
        ELSE [road_type |-> road_type, dropped |-> FALSE,
              hbefa_speed |-> hbefa_speed_value(road_type, speed),
              scaling_road_type |->
                  IF road_type \in DOMAIN scaling_road_types
                  THEN scaling_road_types[road_type] ELSE "NaN"]

TypenoInputs ==
    {-1, 0, 10, 11, 99, 100, 199, 200, 499, 500, 699, 700, 799, 800, 899, 900, 999, 1000}
LinkSpeedInputs == {30, 50, 69, 70, 100}
SpeedInputs == {5 * i : i \in 0 .. MaxSpeedStep}

InitVisum ==
    /\ DefaultNetwork
    /\ cycles = CyclesStore({})
    /\ ef_dict = EFComplete
    /\ vcr_thresholds = vcr_thresholds_notebook
    /\ IdleDispatch
    /\ call = NoCall
    /\ ret = NoCall

CallRoadGradients ==
    \E g \in (-MaxGradient) .. MaxGradient :
        /\ call = NoCall
        /\ call' = [op |-> "hbefa_road_gradients", visum_gradient |-> g]
        /\ ret' = [hbefa_gradient_string |-> hbefa_road_gradients(g)]
        /\ UNCHANGED <<config_vars, dispatch_vars>>

CallSpeedValue ==
    \E rt \in DOMAIN hbefa_speed_table \cup {"none"}, speed \in SpeedInputs :
        /\ call = NoCall
        /\ call' = [op |-> "hbefa_speed_value", hbefa_road_type |-> rt, speed |-> speed]
        /\ ret' = hbefa_speed_value(rt, speed)
        /\ UNCHANGED <<config_vars, dispatch_vars>>

CallPreprocessLink ==
    \E typeno \in TypenoInputs, speed \in LinkSpeedInputs :
        /\ call = NoCall
        /\ call' = [op |-> "preprocess_link", TYPENO |-> typeno, V0PRT |-> speed]
        /\ ret' = preprocess_link(typeno, speed)
        /\ UNCHANGED <<config_vars, dispatch_vars>>

NextVisum == CallRoadGradients \/ CallSpeedValue \/ CallPreprocessLink

SpecVisum == InitVisum /\ [][NextVisum]_vars

HbefaGradientSet == {hbefa_gradients[i] : i \in DOMAIN hbefa_gradients}

\* the percent string of a class as the code writes it, class by class
ClassString(c) ==
    CASE c = -6 -> "-6%" [] c = -4 -> "-4%" [] c = -2 -> "-2%" [] c = 0 -> "0%"
      [] c = 2 -> "2%" [] c = 4 -> "4%" [] c = 6 -> "6%"

\* the percent string of a class in the documented form
SignedClassString(c) ==
    CASE c = -6 -> "-6%" [] c = -4 -> "-4%" [] c = -2 -> "-2%" [] c = 0 -> "0%"
      [] c = 2 -> "+2%" [] c = 4 -> "+4%" [] c = 6 -> "+6%"

NearestClass(c, g) == \A x \in HbefaGradientSet : Abs(10 * c - g) <= Abs(10 * x - g)

\* C26: for every gradient, hbefa_road_gradients returns the class of
\* {-6,-4,-2,0,2,4,6} that is nearest to the gradient: the result is the string
\* of a member of the class set, and no other class is nearer to the gradient.
C26_NearestGradientClass ==
    call.op = "hbefa_road_gradients" =>
        \E c \in HbefaGradientSet :
            /\ ret.hbefa_gradient_string = ClassString(c)
            /\ NearestClass(c, call.visum_gradient)

\* a slope of 3.1 % that lies between two classes is given the nearer one, 4 %
C26_Witness ==
    /\ call.op = "hbefa_road_gradients"
    /\ call.visum_gradient = 31
    /\ ret.hbefa_gradient_string = "4%"

\* C27: hbefa_road_gradients returns the class as a signed percent string in
\* the documented form: a positive class with an explicit plus sign ('+6%'), a
\* negative class with a minus sign, the flat class as '0%'.
C27_SignedPercentString ==
    call.op = "hbefa_road_gradients" =>
        \E c \in HbefaGradientSet :
            /\ NearestClass(c, call.visum_gradient)
            /\ ret.hbefa_gradient_string = SignedClassString(c)

\* C28: for every input, hbefa_speed_value returns an integer that is a member
\* of the HBEFA speed list of the road type and nearest to the speed; it never
\* returns something that is not an HBEFA speed, also not for a road type that
\* the speed table does not have.
C28_SpeedValueIsHbefaSpeed ==
    call.op = "hbefa_speed_value" =>
        /\ ret.returned = "int"
        /\ \E list \in {hbefa_speed_table[rt] : rt \in DOMAIN hbefa_speed_table} :
               \E i \in DOMAIN list :
                   /\ ret.value = list[i]
                   /\ call.hbefa_road_type \in DOMAIN hbefa_speed_table =>
                          /\ list = hbefa_speed_table[call.hbefa_road_type]
                          /\ \A k \in DOMAIN list :
                                 Abs(list[i] - call.speed) <= Abs(list[k] - call.speed)

StrictlyIncreasing(t) == Len(t) = 4 /\ \A i \in 1 .. 3 : t[i] < t[i + 1]

\* C30: every road type hbefa_road_type returns other than 'none' has an entry
\* in scaling_road_types, in the HBEFA speed table and in the VCR thresholds,
\* there with four strictly increasing breakpoints; links of road type 'none'
\* are dropped, so no preprocessed link reaches the temporal-profile lookup or
\* the LOS classification with a road type that is not configured.
C30_ReturnedRoadTypesConfigured ==
    call.op = "preprocess_link" =>
        /\ ret.road_type = "none" => ret.dropped
        /\ ret.road_type # "none" =>
               /\ ~ret.dropped
               /\ ret.road_type \in DOMAIN scaling_road_types
               /\ ret.road_type \in DOMAIN hbefa_speed_table
               /\ ret.road_type \in DOMAIN vcr_thresholds
               /\ StrictlyIncreasing(vcr_thresholds[ret.road_type])
               /\ ret.scaling_road_type \in ScalingRoadTypeSet
               /\ ret.hbefa_speed.returned = "int"

\* a link of type 200 with a free-flow speed of 69 km/h is kept as
\* Distributor/Secondary with speed value 70
C30_Witness ==
    /\ call.op = "preprocess_link"
    /\ call.TYPENO = 200
    /\ call.V0PRT = 69
    /\ ret.road_type = "Distributor/Secondary"
    /\ ~ret.dropped
    /\ ret.hbefa_speed.value = 70
    /\ ret.scaling_road_type = "Distributor/Secondary"


====
